---- MODULE Spec2Model ----
(***************************************************************************)
(* A model of cl.py: the command line is kept in two Python list objects,  *)
(* `arguments` (consumed by queries) and `_original_arguments` (searched,  *)
(* read-only).  flag(name) and option(name, default, missing, convert)     *)
(* are modelled statement by statement, including the try/except blocks.   *)
(*                                                                         *)
(* Python lists are objects: `heap` maps a list reference to the list's    *)
(* content, and the two module globals hold references.                    *)
(***************************************************************************)
EXTENDS Integers, Sequences, FiniteSets, TLC

\* Longest command line explored.
MaxLen == 4

\* Longest argument list handed to the pattern expansion.
MaxArgs == 2

\* Command-line tokens: an option/flag name, a word, a number.
Tokens == {"-f", "x", "7"}

\* Names a script may ask for: every token, and one that is never given.
Names == Tokens \cup {"-n"}

\* Conversion functions a script may pass as CONVERT.
Converts == {"str", "int", "second", "ord"}

VARIABLES
    heap,                  \* list reference -> content of the list object
    arguments,             \* module global: reference of the working list
    _original_arguments,   \* module global: reference of the original list
    call,                  \* the last query: its inputs and its outcome
    repeat,                \* the last query repeats the one before it
    glob_expand            \* a call of _glob_expand: platform, file system,
                           \* parameter, locals, position and result

vars == <<heap, arguments, _original_arguments, call, repeat, glob_expand>>

----------------------------------------------------------------------------
\* Python values, as <<type, repr>>.

PyStr(s) == <<"str", s>>
PyInt(s) == <<"int", s>>
PyNone == <<"NoneType", "None">>
PyTrue == <<"bool", "True">>
PyFalse == <<"bool", "False">>

\* Values a script may pass as DEFAULT and as MISSING.
Defaults == {PyNone}
Missings == {PyStr("")}

\* How a statement, a block or a call ends: a returned value (with the
\* return statement it came from) or a raised exception.
Return(v, at) == [kind |-> "return", val |-> v, at |-> at]
Raise(e) == [kind |-> "raise", val |-> <<"exception", e>>, at |-> "raise"]

----------------------------------------------------------------------------
\* Python list operations (0-based indices).

\* x in l
ListContains(l, x) == \E k \in 1..Len(l) : l[k] = x

\* l.index(x): index of the first occurrence, ValueError if there is none.
ListIndex(l, x) ==
    IF ListContains(l, x)
    THEN Return(CHOOSE k \in 0..(Len(l) - 1) :
                    /\ l[k + 1] = x
                    /\ \A j \in 0..(k - 1) : l[j + 1] # x, "index")
    ELSE Raise("ValueError")

\* l[k] for k >= 0: IndexError when k is out of range.
ListGet(l, k) ==
    IF k < Len(l) THEN Return(l[k + 1], "getitem") ELSE Raise("IndexError")

\* A removal of the last occurrence instead of the first.
ListRemoveLast(l, x) ==
    LET k == CHOOSE k \in 1..Len(l) :
                 l[k] = x /\ \A j \in (k + 1)..Len(l) : l[j] # x
    IN  SubSeq(l, 1, k - 1) \o SubSeq(l, k + 1, Len(l))

\* A removal that fills the hole with the last element (order is lost).
ListRemoveSwap(l, x) ==
    LET k == ListIndex(l, x).val
    IN  IF k + 1 = Len(l)
        THEN SubSeq(l, 1, k)
        ELSE SubSeq(l, 1, k) \o <<l[Len(l)]>> \o SubSeq(l, k + 2, Len(l) - 1)

\* l.remove(x) for x in l: deletes the first occurrence, keeps the rest.
ListRemove(l, x) ==
    LET k == ListIndex(l, x).val
    IN  SubSeq(l, 1, k) \o SubSeq(l, k + 2, Len(l))

\* An assignment in place of the copy: both names denote one list object.
ListAlias(h, r) == [heap |-> h, ref |-> r]

\* l.copy(): a new list object with the same content.
ListCopy(h, r) ==
    LET n == Cardinality(DOMAIN h) + 1
    IN  [heap |-> h @@ (n :> h[r]), ref |-> n]

----------------------------------------------------------------------------
\* Conversion functions, by what they do on the tokens.

\* str(s), int(s), (lambda s: s[1])(s), ord(s)
ApplyConvert(c, s) ==
    CASE c = "str" -> Return(PyStr(s), "convert")
      [] c = "int" -> IF s = "7" THEN Return(PyInt("7"), "convert")
                                 ELSE Raise("ValueError")
      [] c = "second" -> IF s = "-f" THEN Return(PyStr("f"), "convert")
                                     ELSE Raise("IndexError")
      [] c = "ord" -> IF s = "x" THEN Return(PyInt("120"), "convert")
                      ELSE IF s = "7" THEN Return(PyInt("55"), "convert")
                      ELSE Raise("TypeError")

----------------------------------------------------------------------------
\* flag(name)

\* The removal made without asking first whether name is still in the
\* working list: list.remove raises ValueError when it is not.
FlagTryUnguarded(h, args, orig, name) ==
    LET i == ListIndex(h[orig], name)
    IN  IF i.kind = "raise"
        THEN [heap |-> h, out |-> i]
        ELSE IF ListContains(h[args], name)
        THEN [heap |-> [h EXCEPT ![args] = ListRemove(h[args], name)],
              out |-> Return(PyTrue, "found")]
        ELSE [heap |-> h, out |-> Raise("ValueError")]

\* The search made in the working list instead of the original list.
FlagTryWorking(h, args, orig, name) ==
    LET i == ListIndex(h[args], name)
    IN  IF i.kind = "raise"
        THEN [heap |-> h, out |-> i]
        ELSE [heap |-> [h EXCEPT ![args] = ListRemove(h[args], name)],
              out |-> Return(PyTrue, "found")]

\* The try block of flag: the new heap and how the block ended.
FlagTry(h, args, orig, name) ==
    LET i == ListIndex(h[orig], name)
    IN  IF i.kind = "raise"
        THEN [heap |-> h, out |-> i]
        ELSE [heap |-> IF ListContains(h[args], name)
                       THEN [h EXCEPT ![args] = ListRemove(h[args], name)]
                       ELSE h,
              out |-> Return(PyTrue, "found")]

\* flag with its except clause.
flag(h, args, orig, name) ==
    LET r == FlagTry(h, args, orig, name)
    IN  [heap |-> r.heap,
         out |-> IF r.out = Raise("ValueError")
                 THEN Return(PyFalse, "notfound")
                 ELSE r.out]

----------------------------------------------------------------------------
\* option(name, default, missing, convert)

\* The value read at the index of the name itself.
OptionValueSame(h, args, orig, i) == ListGet(h[orig], i)

\* The value read at the same index of the working list.
OptionValueRemaining(h, args, orig, i) == ListGet(h[args], i + 1)

\* value = _original_arguments[i + 1]
OptionValue(h, args, orig, i) == ListGet(h[orig], i + 1)

\* The removals made without asking first whether the token is still in the
\* working list: list.remove raises ValueError when it is not.
OptionTryUnguarded(h, args, orig, name, convert) ==
    LET i == ListIndex(h[orig], name)
    IN  IF i.kind = "raise"
        THEN [heap |-> h, out |-> i, converted |-> <<>>]
        ELSE IF ~ListContains(h[args], name)
        THEN [heap |-> h, out |-> Raise("ValueError"), converted |-> <<>>]
        ELSE LET h1 == [h EXCEPT ![args] = ListRemove(h[args], name)]
                 value == OptionValue(h1, args, orig, i.val)
             IN  IF value.kind = "raise"
                 THEN [heap |-> h1, out |-> value, converted |-> <<>>]
                 ELSE IF ~ListContains(h1[args], value.val)
                 THEN [heap |-> h1, out |-> Raise("ValueError"),
                       converted |-> <<>>]
                 ELSE [heap |-> [h1 EXCEPT ![args] =
                                    ListRemove(h1[args], value.val)],
                       out |-> ApplyConvert(convert, value.val),
                       converted |-> <<value.val>>]

\* The try block of option: the new heap, how the block ended, and the
\* strings CONVERT was called with.
OptionTry(h, args, orig, name, convert) ==
    LET i == ListIndex(h[orig], name)
    IN  IF i.kind = "raise"
        THEN [heap |-> h, out |-> i, converted |-> <<>>]
        ELSE LET h1 == IF ListContains(h[args], name)
                       THEN [h EXCEPT ![args] = ListRemove(h[args], name)]
                       ELSE h
                 value == OptionValue(h1, args, orig, i.val)
             IN  IF value.kind = "raise"
                 THEN [heap |-> h1, out |-> value, converted |-> <<>>]
                 ELSE LET h2 == IF ListContains(h1[args], value.val)
                                THEN [h1 EXCEPT ![args] =
                                         ListRemove(h1[args], value.val)]
                                ELSE h1
                      IN  [heap |-> h2,
                           out |-> ApplyConvert(convert, value.val),
                           converted |-> <<value.val>>]

\* The two except clauses with their return values exchanged.
OptionExceptSwapped(out, default, missing) ==
    IF out = Raise("ValueError") THEN Return(missing, "missing")
    ELSE IF out = Raise("IndexError") THEN Return(default, "default")
    ELSE out

\* The except clauses of option: they catch by exception type, wherever in
\* the try block the exception was raised.
OptionExcept(out, default, missing) ==
    IF out = Raise("ValueError") THEN Return(default, "default")
    ELSE IF out = Raise("IndexError") THEN Return(missing, "missing")
    ELSE out

option(h, args, orig, name, default, missing, convert) ==
    LET r == OptionTry(h, args, orig, name, convert)
    IN  [heap |-> r.heap,
         out |-> OptionExcept(r.out, default, missing),
         converted |-> r.converted]

----------------------------------------------------------------------------
\* The state machine.

\* All token lists of length at most n.
SeqsUpTo(n) == UNION {[1..k -> Tokens] : k \in 0..n}

NoCall ==
    [op |-> "none", name |-> "", default |-> PyNone, missing |-> PyStr(""),
     convert |-> "", before |-> <<>>, out |-> Return(PyNone, "none"),
     converted |-> <<>>]

\* The list object that sys.argv[1:] creates and hands to _glob_expand.
ArgvSlice == 1

\* _glob_expand where the shell expands patterns: return arguments.
GlobExpandNative(h, r) == [heap |-> h, ref |-> r]

\* No call of _glob_expand is under way.
NoFrame == [pc |-> "none"]

\* Module load: arguments = _glob_expand(sys.argv[1:]), the list object that
\* _glob_expand returns; _original_arguments = arguments.copy(), another one.
Init ==
    \E argv \in SeqsUpTo(MaxLen) :
        LET h0 == (ArgvSlice :> argv)
            g == GlobExpandNative(h0, ArgvSlice)
            c == ListCopy(g.heap, g.ref)
        IN  /\ heap = c.heap
            /\ arguments = g.ref
            /\ _original_arguments = c.ref
            /\ call = NoCall
            /\ repeat = FALSE
            /\ glob_expand = NoFrame

\* The script calls flag(name).
Flag ==
    \E name \in Names :
        LET r == flag(heap, arguments, _original_arguments, name)
            c == [op |-> "flag", name |-> name, default |-> PyNone,
                  missing |-> PyStr(""), convert |-> "",
                  before |-> heap[arguments], out |-> r.out,
                  converted |-> <<>>]
        IN  /\ heap' = r.heap
            /\ call' = c
            /\ repeat' = (call.op = "flag" /\ call.name = name)
            /\ UNCHANGED <<arguments, _original_arguments, glob_expand>>

\* The script calls option(name, default, missing, convert).
Option ==
    \E name \in Names, default \in Defaults, missing \in Missings,
       convert \in Converts :
        LET r == option(heap, arguments, _original_arguments, name,
                        default, missing, convert)
            c == [op |-> "option", name |-> name, default |-> default,
                  missing |-> missing, convert |-> convert,
                  before |-> heap[arguments], out |-> r.out,
                  converted |-> r.converted]
        IN  /\ heap' = r.heap
            /\ call' = c
            /\ repeat' = /\ call.op = "option"
                         /\ call.name = name
                         /\ call.default = default
                         /\ call.missing = missing
                         /\ call.convert = convert
            /\ UNCHANGED <<arguments, _original_arguments, glob_expand>>

Next == Flag \/ Option

Spec == Init /\ [][Next]_vars

----------------------------------------------------------------------------
\* _glob_expand(arguments)

\* Values of sys.platform.
Platforms == {"win32", "linux"}

\* 'win32' in sys.platform
IsWindows(p) == p = "win32"

\* Files that may exist in the working directory.
Files == {"a.csv", "b.csv"}

\* Arguments handed to the expansion: a pattern, a file name, a switch.
GlobTokens == {"*.csv", "a.csv", "-f"}

\* The files of file system f that pattern p matches.
Matches(p, f) ==
    CASE p = "*.csv" -> f \cap {"a.csv", "b.csv"}
      [] p \in Files -> f \cap {p}
      [] OTHER -> {}

\* glob(p) on file system f: the matches, in an order glob does not promise.
Glob(p, f) ==
    LET m == Matches(p, f)
    IN  {l \in [1..Cardinality(m) -> m] :
            \A i, j \in 1..Cardinality(m) : i # j => l[i] # l[j]}

\* The two branches of the loop body put the other way round.
GlobAddSwapped(out, arg, globbed, second) ==
    IF globbed # <<>> THEN out \o <<arg>> ELSE out \o second

\* The new tokens put in front of the list instead of at its end.
GlobAddFront(out, arg, globbed, second) ==
    IF globbed # <<>> THEN second \o out ELSE <<arg>> \o out

\* The if statement of the loop body: add the result of a second glob(arg)
\* when the first was not empty, the argument itself otherwise.
GlobAdd(out, arg, globbed, second) ==
    IF globbed # <<>> THEN out \o second ELSE out \o <<arg>>

\* All argument lists of length at most n.
GlobSeqsUpTo(n) == UNION {[1..k -> GlobTokens] : k \in 0..n}

\* _glob_expand is called: any platform, any files, any argument list.
InitGlob ==
    /\ heap = <<>>
    /\ arguments = 0
    /\ _original_arguments = 0
    /\ call = NoCall
    /\ repeat = FALSE
    /\ \E p \in Platforms, f \in SUBSET Files, a \in GlobSeqsUpTo(MaxArgs) :
           glob_expand = [pc |-> "enter", platform |-> p, fs |-> f,
                          fs_changed |-> FALSE, arguments |-> a,
                          glob_expanded_arguments |-> <<>>, index |-> 0,
                          globbed |-> <<>>, lookups |-> <<>>,
                          result |-> <<>>]

\* else: return arguments
GlobNative ==
    /\ glob_expand.pc = "enter"
    /\ ~IsWindows(glob_expand.platform)
    /\ glob_expand' = [glob_expand EXCEPT !.pc = "done",
                                          !.result = glob_expand.arguments]
    /\ UNCHANGED <<heap, arguments, _original_arguments, call, repeat>>

\* if 'win32' in sys.platform: glob_expanded_arguments = []
GlobStart ==
    /\ glob_expand.pc = "enter"
    /\ IsWindows(glob_expand.platform)
    /\ glob_expand' = [glob_expand EXCEPT !.pc = "for",
                                          !.glob_expanded_arguments = <<>>]
    /\ UNCHANGED <<heap, arguments, _original_arguments, call, repeat>>

\* for arg in arguments: globbed = glob(arg)
GlobTest ==
    /\ glob_expand.pc = "for"
    /\ glob_expand.index < Len(glob_expand.arguments)
    /\ \E g \in Glob(glob_expand.arguments[glob_expand.index + 1],
                     glob_expand.fs) :
           glob_expand' = [glob_expand EXCEPT !.pc = "if", !.globbed = g]
    /\ UNCHANGED <<heap, arguments, _original_arguments, call, repeat>>

\* if globbed: glob_expanded_arguments += glob(arg)
\* else: glob_expanded_arguments += [arg]
GlobExtend ==
    /\ glob_expand.pc = "if"
    /\ LET arg == glob_expand.arguments[glob_expand.index + 1]
       IN  \E second \in IF glob_expand.globbed # <<>>
                         THEN Glob(arg, glob_expand.fs) ELSE {<<>>} :
               LET out == GlobAdd(glob_expand.glob_expanded_arguments, arg,
                                  glob_expand.globbed, second)
               IN  glob_expand' =
                       [glob_expand EXCEPT
                           !.pc = "for",
                           !.glob_expanded_arguments = out,
                           !.index = glob_expand.index + 1,
                           !.lookups = Append(glob_expand.lookups,
                               [arg |-> arg, globbed |-> glob_expand.globbed,
                                second |-> second, len |-> Len(out)])]
    /\ UNCHANGED <<heap, arguments, _original_arguments, call, repeat>>

\* return glob_expanded_arguments
GlobReturn ==
    /\ glob_expand.pc = "for"
    /\ glob_expand.index = Len(glob_expand.arguments)
    /\ glob_expand' =
           [glob_expand EXCEPT !.pc = "done",
                               !.result = glob_expand.glob_expanded_arguments]
    /\ UNCHANGED <<heap, arguments, _original_arguments, call, repeat>>

\* Another process creates or deletes files while the loop runs.
FilesystemChange ==
    /\ glob_expand.pc \in {"for", "if"}
    /\ \E f \in SUBSET Files :
           /\ f # glob_expand.fs
           /\ glob_expand' = [glob_expand EXCEPT !.fs = f,
                                                 !.fs_changed = TRUE]
    /\ UNCHANGED <<heap, arguments, _original_arguments, call, repeat>>

NextGlob ==
    \/ GlobNative
    \/ GlobStart
    \/ GlobTest
    \/ GlobExtend
    \/ GlobReturn
    \/ FilesystemChange

SpecGlob == InitGlob /\ [][NextGlob]_vars

----------------------------------------------------------------------------
\* Vocabulary of the properties.

Working == heap[arguments]
Original == heap[_original_arguments]

\* s is an order-preserving sub-sequence of t.
RECURSIVE IsSubseq(_, _)
IsSubseq(s, t) ==
    IF s = <<>> THEN TRUE
    ELSE IF t = <<>> THEN FALSE
    ELSE IF Head(s) = Head(t) THEN IsSubseq(Tail(s), Tail(t))
    ELSE IsSubseq(s, Tail(t))

\* Number of occurrences of x in l.
Count(l, x) == Cardinality({k \in 1..Len(l) : l[k] = x})

\* Position (from 1) of the first occurrence of x in l, 0 when there is none.
FirstPos(l, x) ==
    IF \E k \in 1..Len(l) : l[k] = x
    THEN CHOOSE k \in 1..Len(l) : l[k] = x /\ \A j \in 1..(k - 1) : l[j] # x
    ELSE 0

\* l without the entry at position p (from 1); l itself when p = 0.
DeleteAt(l, p) ==
    [k \in 1..(Len(l) - (IF p = 0 THEN 0 ELSE 1)) |->
        IF p = 0 \/ k < p THEN l[k] ELSE l[k + 1]]

\* l without the first occurrence of x, if there is one.
WithoutFirst(l, x) == DeleteAt(l, FirstPos(l, x))

----------------------------------------------------------------------------
\* C1: whatever the original argument list and whatever flag and option
\* queries were made, the working list is an order-preserving sub-sequence
\* of the original list.
C1_WorkingIsSubsequence == IsSubseq(Working, Original)

\* Both kinds of query have removed tokens, from a list that repeats a token.
C1_Witness ==
    /\ call.op = "option"
    /\ Len(Working) + 2 = Len(call.before)
    /\ Len(call.before) < Len(Original)
    /\ \E t \in Tokens : Count(Original, t) >= 2

----------------------------------------------------------------------------
\* The last query was option(name, ...) for a name whose first occurrence in
\* the original list is followed by a value token.
OptionWithValue ==
    /\ call.op = "option"
    /\ FirstPos(Original, call.name) > 0
    /\ FirstPos(Original, call.name) < Len(Original)

\* The token that follows the first occurrence of the name in the original.
OriginalValue == Original[FirstPos(Original, call.name) + 1]

\* C2: when option finds the name with a following value and convert fails
\* on that value, the failure reaches the caller, whatever exception it is:
\* option does not return `default` or `missing` instead.
C2_ConversionFailurePropagates ==
    (/\ OptionWithValue
     /\ ApplyConvert(call.convert, OriginalValue).kind = "raise")
        => call.out = ApplyConvert(call.convert, OriginalValue)

\* C3: in every reachable state, option for a name followed by a value in
\* the original list hands convert the token that follows the name in the
\* ORIGINAL list, and returns what convert returns for it; the token does
\* not depend on what earlier queries removed from the working list.
C3_ValueFromOriginal ==
    OptionWithValue =>
        /\ call.converted = <<OriginalValue>>
        /\ ApplyConvert(call.convert, OriginalValue).kind = "return"
               => call.out = ApplyConvert(call.convert, OriginalValue)

\* The query came after an earlier one had removed the value from the
\* working list, where another token now follows the name.
C3_Witness ==
    /\ OptionWithValue
    /\ call.out.at = "convert"
    /\ ~ \E k \in 1..Len(call.before) : call.before[k] = OriginalValue
    /\ LET p == FirstPos(call.before, call.name)
       IN  p > 0 /\ p < Len(call.before)

\* The last query was option with the identity conversion, made while the
\* working list was still the whole original list.
FreshOptionStr ==
    /\ OptionWithValue
    /\ call.convert = "str"
    /\ call.before = Original

\* C4 as claimed: on a fresh state option(name) with the identity conversion
\* returns the token after the name and leaves the original list without
\* exactly the entries at the positions of the name and of its value.
C4_Claimed ==
    FreshOptionStr =>
        /\ call.out = Return(PyStr(OriginalValue), "convert")
        /\ Working = DeleteAt(DeleteAt(Original,
                                       FirstPos(Original, call.name) + 1),
                              FirstPos(Original, call.name))

\* C4 amended: the value is the token after the name; the name's entry is
\* deleted, and with it the first entry equal to the value: the one after
\* the name unless the value string occurs earlier in the list.
C4_FirstEqualEntryDeleted ==
    FreshOptionStr =>
        LET i == FirstPos(Original, call.name)
            j == FirstPos(Original, OriginalValue)
        IN  /\ call.out = Return(PyStr(OriginalValue), "convert")
            /\ Working = IF j < i
                         THEN DeleteAt(DeleteAt(Original, i), j)
                         ELSE DeleteAt(DeleteAt(Original, i + 1), i)

\* The value string also occurs before the name, with a token in between.
C4_Witness ==
    /\ FreshOptionStr
    /\ FirstPos(Original, OriginalValue) < FirstPos(Original, call.name)
    /\ Working # DeleteAt(DeleteAt(Original,
                                   FirstPos(Original, call.name) + 1),
                          FirstPos(Original, call.name))

----------------------------------------------------------------------------
\* A step in which flag(name) is called right after flag(name).
FlagTwice ==
    /\ call.op = "flag"
    /\ call'.op = "flag"
    /\ call'.name = call.name

\* C5 as claimed: two flag(name) calls in a row return the same boolean,
\* which tells whether name is in the original list; the second removes
\* nothing, and both together remove at most one occurrence of name.
C5_Claimed ==
    [][FlagTwice =>
          /\ call'.out = call.out
          /\ call.out.val = PyTrue <=> Count(Original, call.name) > 0
          /\ Working' = Working
          /\ Count(call.before, call.name) - Count(Working', call.name) <= 1
      ]_vars

\* C5 amended: two flag(name) calls in a row return the same boolean, which
\* tells whether name is in the original list; each call removes at most one
\* occurrence of name and nothing else; the second removes nothing, and both
\* together remove at most one occurrence, when name occurs at most once in
\* the original list; otherwise the second call removes the next remaining
\* occurrence, if there is one.
C5_RepeatedFlag ==
    [][FlagTwice =>
          /\ call'.out = call.out
          /\ call.out.val = PyTrue <=> Count(Original, call.name) > 0
          /\ Working' = WithoutFirst(Working, call.name)
          /\ Count(call.before, call.name) - Count(Working, call.name) <= 1
          /\ Count(Original, call.name) <= 1 =>
                 /\ Working' = Working
                 /\ Count(call.before, call.name)
                        - Count(Working', call.name) <= 1
      ]_vars

\* flag(name) was called twice in a row on a list that has name twice, and
\* the second call removed an occurrence too.
C5_Witness ==
    /\ call.op = "flag"
    /\ repeat
    /\ Count(Original, call.name) = 2
    /\ Len(Working) + 1 = Len(call.before)

\* Conversions that return for every token.
TotalConverts ==
    {c \in Converts : \A t \in Tokens : ApplyConvert(c, t).kind = "return"}

\* A step in which option is called right after the same option call.
OptionTwice ==
    /\ call.op = "option"
    /\ call'.op = "option"
    /\ call'.name = call.name
    /\ call'.default = call.default
    /\ call'.missing = call.missing
    /\ call'.convert = call.convert
    /\ call.convert \in TotalConverts

\* C6 as claimed: a second option(name) call in a row returns what the first
\* returned and leaves the working list as the first call left it.
C6_Claimed ==
    [][OptionTwice => call'.out = call.out /\ Working' = Working]_vars

\* C6 amended: a second option(name) call in a row returns what the first
\* returned; it leaves the working list as the first call left it when name
\* and the value each occur at most once in the original list; otherwise it
\* removes the first remaining occurrence of name, if any, and then the
\* first remaining token equal to the value, if any, and nothing else.
C6_RepeatedOption ==
    [][OptionTwice =>
          /\ call'.out = call.out
          /\ Working' =
                 IF FirstPos(Original, call.name) = 0 THEN Working
                 ELSE IF FirstPos(Original, call.name) = Len(Original)
                 THEN WithoutFirst(Working, call.name)
                 ELSE WithoutFirst(WithoutFirst(Working, call.name),
                                   OriginalValue)
          /\ (/\ Count(Original, call.name) <= 1
              /\ OptionWithValue => Count(Original, OriginalValue) <= 1)
                 => Working' = Working
      ]_vars

\* option(name) was called twice in a row and the second call removed a
\* further token equal to the value.
C6_Witness ==
    /\ OptionWithValue
    /\ repeat
    /\ call.convert \in TotalConverts
    /\ Count(call.before, call.name) = 0
    /\ Len(Working) + 1 = Len(call.before)

\* C7: in every reachable state, option for a name that is not in the
\* original list returns `default` itself, does not call convert and leaves
\* the working list as it was.
C7_AbsentOption ==
    (call.op = "option" /\ FirstPos(Original, call.name) = 0) =>
        /\ call.out = Return(call.default, "default")
        /\ call.converted = <<>>
        /\ Working = call.before

\* An absent name was asked for after earlier queries had removed tokens.
C7_Witness ==
    /\ call.op = "option"
    /\ FirstPos(Original, call.name) = 0
    /\ Len(call.before) < Len(Original)
    /\ call.before # <<>>

\* C8: when the first occurrence of name is the last token of the original
\* list, option returns `missing` as it is, does not call convert, removes
\* the name from the working list if it is still there, and nothing else.
C8_MissingValue ==
    (call.op = "option" /\ FirstPos(Original, call.name) = Len(Original)
                        /\ Original # <<>>) =>
        /\ call.out = Return(call.missing, "missing")
        /\ call.converted = <<>>
        /\ Working = WithoutFirst(call.before, call.name)
        /\ Count(Working, call.name) = 0

\* The name was the last token, was still in the working list among other
\* tokens, and was removed.
C8_Witness ==
    /\ call.op = "option"
    /\ Len(Original) > 1
    /\ FirstPos(Original, call.name) = Len(Original)
    /\ Len(Working) + 1 = Len(call.before)
    /\ Working # <<>>

\* C9: in every reachable state flag(name) raises nothing and returns true
\* exactly when name is in the original list, whatever earlier queries
\* removed; returning false it leaves the working list as it was, returning
\* true it removes the first remaining occurrence of name, if there is one,
\* and nothing else.
C9_FlagTotal ==
    call.op = "flag" =>
        /\ call.out.kind = "return"
        /\ call.out.val \in {PyTrue, PyFalse}
        /\ call.out.val = PyTrue <=> Count(Original, call.name) > 0
        /\ call.out.val = PyFalse => Working = call.before
        /\ call.out.val = PyTrue =>
               /\ Working = WithoutFirst(call.before, call.name)
               /\ Len(call.before) - Len(Working) <= 1

\* flag returned true for a name that earlier queries had already removed
\* from the working list.
C9_Witness ==
    /\ call.op = "flag"
    /\ call.out.val = PyTrue
    /\ Count(call.before, call.name) = 0
    /\ call.before # <<>>

\* C10: no flag or option call changes the original argument list: the
\* global keeps its list object and the object keeps its content.
C10_OriginalNeverChanges ==
    [][/\ _original_arguments' = _original_arguments
       /\ heap'[_original_arguments'] = heap[_original_arguments]]_vars

\* Queries have emptied the working list and the original is still there.
C10_Witness ==
    /\ call.op # "none"
    /\ Working = <<>>
    /\ Len(Original) >= 2

----------------------------------------------------------------------------
\* Pattern expansion.

\* _glob_expand has returned on a platform without shell expansion.
GlobDone ==
    /\ glob_expand.pc = "done"
    /\ IsWindows(glob_expand.platform)

\* The tokens of the result that the k-th loop pass added.
BlockOf(k) ==
    SubSeq(glob_expand.result,
           (IF k = 1 THEN 0 ELSE glob_expand.lookups[k - 1].len) + 1,
           glob_expand.lookups[k].len)

\* l lists every element of the set m once.
IsOrderingOf(l, m) ==
    /\ Len(l) = Cardinality(m)
    /\ {l[i] : i \in 1..Len(l)} = m

\* C11: without shell expansion the result is the concatenation, in the
\* order of the arguments, of one block per argument (all tokens of argument
\* k come before all tokens of argument k+1); on the file system the call
\* runs on, the block of an argument is the list of its matches when there
\* are any, and the argument itself otherwise.
C11_BlocksInArgumentOrder ==
    GlobDone =>
        LET n == Len(glob_expand.arguments)
        IN  /\ Len(glob_expand.lookups) = n
            /\ \A k \in 1..n :
                   /\ glob_expand.lookups[k].arg = glob_expand.arguments[k]
                   /\ k > 1 => glob_expand.lookups[k - 1].len
                                   <= glob_expand.lookups[k].len
            /\ Len(glob_expand.result) =
                   (IF n = 0 THEN 0 ELSE glob_expand.lookups[n].len)
            /\ ~glob_expand.fs_changed =>
                   \A k \in 1..n :
                       LET m == Matches(glob_expand.arguments[k],
                                        glob_expand.fs)
                       IN  IF m # {}
                           THEN IsOrderingOf(BlockOf(k), m)
                           ELSE BlockOf(k) = <<glob_expand.arguments[k]>>

\* Two arguments were expanded: a pattern with two matches, then an
\* argument that matches nothing.
C11_Witness ==
    /\ GlobDone
    /\ ~glob_expand.fs_changed
    /\ Len(glob_expand.arguments) = 2
    /\ Cardinality(Matches(glob_expand.arguments[1], glob_expand.fs)) = 2
    /\ Matches(glob_expand.arguments[2], glob_expand.fs) = {}
    /\ Len(glob_expand.result) = 3

\* C12: the expansion drops no argument: every argument adds at least one
\* token to the result, so the result is not shorter than the argument
\* list, whatever the two glob calls made for an argument return.
C12_NoArgumentDropped ==
    GlobDone =>
        /\ Len(glob_expand.result) >= Len(glob_expand.arguments)
        /\ \A k \in 1..Len(glob_expand.lookups) : BlockOf(k) # <<>>

\* C13: where the shell expands patterns, the list that _glob_expand returns
\* (the working list) is another object than the list it was given, so no
\* removal that flag or option makes changes the list that was passed in.
C13_ReturnedListIsACopy ==
    [][heap'[ArgvSlice] = heap[ArgvSlice]]_vars

\* C14: on a file system that stays as it is, expanding a list whose
\* arguments each match nothing or only themselves returns the same list.
C14_LiteralListUnchanged ==
    (/\ glob_expand.pc = "done"
     /\ ~glob_expand.fs_changed
     /\ \A k \in 1..Len(glob_expand.arguments) :
            Matches(glob_expand.arguments[k], glob_expand.fs)
                \subseteq {glob_expand.arguments[k]})
        => glob_expand.result = glob_expand.arguments

\* A list with a name that matches itself and a pattern that matches nothing
\* went through the loop.
C14_Witness ==
    /\ GlobDone
    /\ ~glob_expand.fs_changed
    /\ glob_expand.fs = {"a.csv"}
    /\ glob_expand.arguments = <<"a.csv", "-f">>

----------------------------------------------------------------------------
\* C15: a call of option that returns `default` has removed nothing from the
\* working list: option returns `default` only when name is not in the
\* original list, and `missing` only when the first occurrence of name is
\* the last token, whatever convert does, raising included.
C15_DefaultMeansAbsent ==
    call.op = "option" =>
        /\ call.out.at = "default" =>
               /\ Working = call.before
               /\ FirstPos(Original, call.name) = 0
        /\ call.out.at = "missing" =>
               /\ Original # <<>>
               /\ FirstPos(Original, call.name) = Len(Original)

\* The queries with a conversion that returns for every token.
TotalQueries ==
    [op : {"flag"}, name : Names, default : {PyNone},
     missing : {PyStr("")}, convert : {""}]
        \cup [op : {"option"}, name : Names, default : Defaults,
              missing : Missings, convert : TotalConverts]

\* The query q made on heap h.
RunQuery(h, q) ==
    IF q.op = "flag"
    THEN flag(h, arguments, _original_arguments, q.name)
    ELSE option(h, arguments, _original_arguments, q.name, q.default,
                q.missing, q.convert)

\* C16: queries commute.  With q1 the query just made and q2 any other one,
\* q1 then q2 gives the same two results and the same working list as q2
\* then q1, started where q1 started.
C16_QueriesCommute ==
    (\E q \in TotalQueries : q.op = call.op /\ q.convert = call.convert) =>
        \A q2 \in TotalQueries :
            LET q1 == [op |-> call.op, name |-> call.name,
                       default |-> call.default, missing |-> call.missing,
                       convert |-> call.convert]
                start == [heap EXCEPT ![arguments] = call.before]
                then2 == RunQuery(heap, q2)
                first2 == RunQuery(start, q2)
                then1 == RunQuery(first2.heap, q1)
            IN  /\ then2.out = first2.out
                /\ then1.out = call.out
                /\ then2.heap[arguments] = then1.heap[arguments]

\* An option query removed the name and its value while a second token
\* equal to the value stays in the working list for other queries to take.
C16_Witness ==
    /\ OptionWithValue
    /\ call.convert \in TotalConverts
    /\ Len(Working) + 2 = Len(call.before)
    /\ Count(Working, OriginalValue) > 0
    /\ OriginalValue # call.name

====
